---- MODULE Spec2Model ----
(***************************************************************************)
(* Model of downloads_sorter.py: the planner, the executor with its        *)
(* journal, and the undo engine, over a small filesystem.                  *)
(*                                                                         *)
(* A path is [dir, name]: dir is "" for an entry directly under the        *)
(* downloads directory and the folder's name for an entry inside that      *)
(* folder.  A name is [base, sfx, ext]: the text "base (s1) (s2)...ext",   *)
(* so that Path.stem is (base, sfx) and Path.suffix is ext.                *)
(***************************************************************************)
EXTENDS Integers, Sequences, FiniteSets, TLC

\* ------------------------------------------------------------------ bounds
\* Most top-level files the downloads directory starts with.
MaxTop == 2
\* Most invocations of main() in one behaviour.
MaxRuns == 2
\* Most external events (a file removed by someone else, the process ended)
\* in one behaviour.
MaxExternal == 1
\* Most lines of the journal handed to run_undo in the undo-only specification.
MaxLines == 2
\* Most numbered variants "name (i).ext" of one name that a folder starts with.
MaxChain == 2

\* ------------------------------------------------------- names and paths
Nm(b, s, e) == [base |-> b, sfx |-> s, ext |-> e]

P(d, n) == [dir |-> d, name |-> n]

\* The downloads directory itself (the argument of run_sort).
downloads_dir == P("/", Nm("Downloads", <<>>, ""))

\* A folder directly under the downloads directory.
Folder(name) == P("", Nm(name, <<>>, ""))

\* Path.parent
Parent(p) == IF p.dir = "" THEN downloads_dir ELSE Folder(p.dir)

\* parent / name
Join(d, n) == IF d = downloads_dir THEN P("", n) ELSE P(d.name.base, n)

\* ------------------------------------------------------------- constants
EXT_MAP ==
  << [cat |-> "Images", exts |-> {".jpg", ".jpeg", ".png", ".gif", ".bmp", ".tiff", ".tif", ".webp", ".heic", ".svg"}],
     [cat |-> "Documents", exts |-> {".pdf", ".doc", ".docx", ".txt", ".rtf", ".odt", ".md"}],
     [cat |-> "Spreadsheets", exts |-> {".xls", ".xlsx", ".csv", ".tsv", ".ods"}],
     [cat |-> "Slides", exts |-> {".ppt", ".pptx", ".key"}],
     [cat |-> "Audio", exts |-> {".mp3", ".wav", ".m4a", ".aac", ".flac", ".ogg"}],
     [cat |-> "Video", exts |-> {".mp4", ".mov", ".avi", ".mkv", ".wmv", ".m4v"}],
     [cat |-> "Archives", exts |-> {".zip", ".rar", ".7z", ".tar", ".gz", ".bz2"}],
     [cat |-> "Installers", exts |-> {".exe", ".msi", ".msix"}],
     [cat |-> "Code", exts |-> {".py", ".ipynb", ".java", ".c", ".cpp", ".h", ".hpp", ".js", ".ts",
                                ".html", ".css", ".json", ".xml", ".yml", ".yaml", ".sql", ".sh", ".bat", ".ps1"}] >>

CATEGORY_FOLDERS == {EXT_MAP[i].cat : i \in 1..Len(EXT_MAP)} \cup {"Other"}

LOGS_FOLDER_NAME == "_DownloadsSorterLogs"

\* ------------------------------------------------------------ classifier
\* str.lower() on the extensions the model uses.
lower(ext) ==
  CASE ext = ".PNG" -> ".png"
    [] ext = ".Txt" -> ".txt"
    [] ext = ".XyZ" -> ".xyz"
    [] OTHER -> ext

RECURSIVE first_match(_, _)
first_match(ext, i) ==
  IF i > Len(EXT_MAP) THEN "Other"
  ELSE IF ext \in EXT_MAP[i].exts THEN EXT_MAP[i].cat
  ELSE first_match(ext, i + 1)

\* Variant: the extension looked up as it is spelled.
CategoryExactCase(path) == first_match(path.name.ext, 1)

category_for_file(path) == first_match(lower(path.name.ext), 1)

\* ------------------------------------------------------ the filesystem
\* A filesystem is a function from the paths that exist to what is there.
\* A file carries the path it was created at (its identity), its size and
\* its modification time in half seconds.
FileAt(p, sz, mt) == [kind |-> "file", id |-> p, size |-> sz, mtime |-> mt]

DirAt(p) == [kind |-> "dir", id |-> p, size |-> 0, mtime |-> 0]

exists(f, p) == p \in DOMAIN f

is_file(f, p) == p \in DOMAIN f /\ f[p].kind = "file"

iterdir(f, d) == {p \in DOMAIN f : Parent(p) = d}

\* Path.mkdir(parents=True, exist_ok=True)
ensure_dir(f, d) ==
  IF d \in DOMAIN f THEN f
  ELSE [p \in DOMAIN f \cup {d} |-> IF p = d THEN DirAt(d) ELSE f[p]]

RECURSIVE ensure_dirs(_, _)
ensure_dirs(f, ds) ==
  IF ds = {} THEN f
  ELSE LET d == CHOOSE x \in ds : TRUE
       IN ensure_dirs(ensure_dir(f, d), ds \ {d})

\* os.stat(): the size and the modification time (a float of seconds).
stat(f, p) == [st_size |-> f[p].size, st_mtime |-> f[p].mtime]

\* int() of a float of seconds held in half seconds.
int(halves) == halves \div 2

\* Variant: the file copied to dst and left at src as well.
ShutilCopy(f, src, dst) ==
  [p \in DOMAIN f \cup {dst} |-> IF p = dst THEN f[src] ELSE f[p]]

\* shutil.move(src, dst) of a file onto a path that is no directory: the
\* rename (or the copy and unlink) replaces whatever file was at dst.
shutil_move(f, src, dst) ==
  [p \in (DOMAIN f \ {src}) \cup {dst} |-> IF p = dst THEN f[src] ELSE f[p]]

\* --------------------------------------------------- destination resolver
\* Variant: the i-th candidate returned without the existence check.
FirstFreeUnchecked(f, dest, i) ==
  Join(Parent(dest), Nm(dest.name.base, Append(dest.name.sfx, i), dest.name.ext))

RECURSIVE first_free(_, _, _)
first_free(f, dest, i) ==
  LET candidate == Join(Parent(dest),
                        Nm(dest.name.base, Append(dest.name.sfx, i), dest.name.ext))
  IN IF ~exists(f, candidate) THEN candidate ELSE first_free(f, dest, i + 1)

\* Variant: the counter started at 2.
SafeUniqueFromTwo(f, dest) ==
  IF ~exists(f, dest) THEN dest ELSE first_free(f, dest, 2)

safe_unique_destination(f, dest) ==
  IF ~exists(f, dest) THEN dest ELSE first_free(f, dest, 1)

\* path.resolve().relative_to(maybe_parent.resolve()) succeeds
is_inside(path, maybe_parent) ==
  path = maybe_parent \/ Parent(path) = maybe_parent

\* ---------------------------------------------------------------- journal
NoPath == P("", Nm("", <<>>, ""))

\* A dict is modelled with the set of keys it has; a key it lacks keeps a
\* placeholder value that nothing reads.
NoDict ==
  [has |-> {}, timestamp |-> 0, action |-> "", category |-> "", src |-> NoPath,
   dst |-> NoPath, size_bytes |-> 0, mtime_epoch |-> 0, error |-> ""]

\* Variant: the record with src and dst exchanged.
MoveRecordSwapped(ts, a, st) ==
  [has |-> {"timestamp", "action", "category", "src", "dst", "size_bytes", "mtime_epoch"},
   timestamp |-> ts, action |-> "move", category |-> a.cat, src |-> a.dst,
   dst |-> a.src, size_bytes |-> st.st_size, mtime_epoch |-> int(st.st_mtime),
   error |-> ""]

\* The record of a successful move (built before the move, from the stat
\* taken before it).  ts is the clock reading, in whole seconds.
MoveRecord(ts, a, st) ==
  [has |-> {"timestamp", "action", "category", "src", "dst", "size_bytes", "mtime_epoch"},
   timestamp |-> ts, action |-> "move", category |-> a.cat, src |-> a.src,
   dst |-> a.dst, size_bytes |-> st.st_size, mtime_epoch |-> int(st.st_mtime),
   error |-> ""]

\* The record of a failed move; e stands for repr(e).
ErrorRecord(ts, a, e) ==
  [has |-> {"timestamp", "action", "src", "dst", "error"},
   timestamp |-> ts, action |-> "error", category |-> "", src |-> a.src,
   dst |-> a.dst, size_bytes |-> 0, mtime_epoch |-> 0, error |-> e]

\* A line of a journal file: text that is a JSON object, text that is another
\* JSON value (a number, a list, null), or text that is no JSON at all.
json_dumps(d) == [parse |-> "object", obj |-> d]

NonObjectLine == [parse |-> "value", obj |-> NoDict]

InvalidLine == [parse |-> "invalid", obj |-> NoDict]

\* Variant: the file opened with "w", which drops what it held.
WriteLogTruncating(j, lp, rec) ==
  [q \in DOMAIN j \cup {lp} |-> IF q = lp THEN <<json_dumps(rec)>> ELSE j[q]]

\* Variant: nothing is written.
WriteLogNothing(j, lp, rec) == j

\* open(log_path, "a") creates the file when it is missing, and the line is
\* written and flushed when the with block closes the file.
write_log_line(j, lp, rec) ==
  LET old == IF lp \in DOMAIN j THEN j[lp] ELSE <<>>
  IN [q \in DOMAIN j \cup {lp} |-> IF q = lp THEN Append(old, json_dumps(rec)) ELSE j[q]]

\* Variant: every JSON object kept, whatever its action.
RetainedAnyObject(line) == line.parse = "object"

\* One pass of the reading loop's body: json.loads raises on text that is no
\* JSON, rec.get raises on a value that is no dict, and both are swallowed.
retained(line) ==
  /\ line.parse = "object"
  /\ "action" \in line.obj.has
  /\ line.obj.action = "move"

\* The moves list after the reading loop; each element also carries the
\* number of the line it came from.
RECURSIVE read_moves(_, _)
read_moves(lines, i) ==
  IF i > Len(lines) THEN <<>>
  ELSE (IF retained(lines[i]) THEN <<[line |-> i, rec |-> lines[i].obj]>> ELSE <<>>)
       \o read_moves(lines, i + 1)

\* Variant: the list left in journal order.
ReverseNot(s) == s

\* list.reverse()
reverse(s) == [i \in 1..Len(s) |-> s[Len(s) + 1 - i]]

\* ------------------------------------------------------------------ state
VARIABLES
  fs,           \* the filesystem under the downloads directory
  journal,      \* the journal files in the log folder: stamp -> lines
  runs,         \* invocations started so far; also the clock, in seconds
  pc,           \* where the running invocation is: "idle" when none runs
  args,         \* the running (or last) invocation's operation and flags
  log_path,     \* run_sort's log_path / run_undo's argument (a stamp)
  planned,      \* run_sort's planned list
  idx,          \* the executor loop's position in planned
  moved_count,  \* run_sort's moved_count
  record,       \* the record the executor is about to write
  moves,        \* run_undo's moves list (reversed)
  upos,         \* the undo loop's position in moves
  fs0,          \* history: the filesystem when the invocation started
  removed,      \* history: sources removed externally before execution
  interfered,   \* history: something external changed the filesystem
  outcome,      \* history: "moved" / "failed" per executor attempt
  external,     \* history: external events so far
  undone,       \* history: the journal line of each move undone, in order
  hist,         \* history: one entry per finished invocation
  call          \* history: the last call of a function on its own, with its result

vars ==
  << fs, journal, runs, pc, args, log_path, planned, idx, moved_count, record,
     moves, upos, fs0, removed, interfered, outcome, external, undone, hist, call >>

logs_dir == Join(downloads_dir, Nm(LOGS_FOLDER_NAME, <<>>, ""))

category_dirs == {Join(downloads_dir, Nm(name, <<>>, "")) : name \in CATEGORY_FOLDERS}

\* now_stamp(): the clock at one-second resolution.  Invocations are taken
\* to start in different seconds (main() waits for Enter before it exits).
now_stamp(clock) == clock

\* Permutations of a finite set, as sequences: the orders iterdir() may list in.
Perms(S) ==
  {s \in [1..Cardinality(S) -> S] : \A i, j \in 1..Cardinality(S) : i # j => s[i] # s[j]}

\* ----------------------------------------------------- initial filesystems
Size(p) ==
  (CASE p.name.base = "photo" -> 10 [] p.name.base = "notes" -> 20 [] OTHER -> 30)
  + Len(p.name.sfx) + (IF p.dir = "" THEN 0 ELSE 100)

Mtime(p) ==
  (CASE p.name.base = "photo" -> 3 [] p.name.base = "notes" -> 4 [] OTHER -> 7)
  + 2 * Len(p.name.sfx) + (IF p.dir = "" THEN 0 ELSE 10)

TopFileCandidates ==
  { P("", Nm("photo", <<>>, ".png")), P("", Nm("photo", <<1>>, ".png")),
    P("", Nm("notes", <<>>, ".txt")) }

\* A subfolder the downloads directory holds from the start.
TopDirs == { P("", Nm("stuff", <<>>, "")) }

FiledCandidates ==
  { P("Images", Nm("photo", <<>>, ".png")), P("Images", Nm("photo", <<1>>, ".png")) }

\* The filesystem holding the downloads directory, the files of F, the
\* directories of D and the folders the files of F are in.
MakeFs(F, D) ==
  LET dirs == {downloads_dir} \cup D \cup {Parent(p) : p \in F}
  IN [p \in F \cup dirs |-> IF p \in F THEN FileAt(p, Size(p), Mtime(p)) ELSE DirAt(p)]

NoJournal == [q \in {} |-> <<>>]

NoArgs == [op |-> "none", dry_run |-> FALSE, proceed |-> FALSE]

NoCall == [fn |-> "none", arg |-> NoPath, path |-> NoPath, cat |-> ""]

\* The flags an invocation can be given and the answer to its prompt.  The
\* prompt is only reached when dry_run and assume_yes are both unset.
Flags ==
  { [dry_run |-> TRUE, assume_yes |-> FALSE, resp |-> ""],
    [dry_run |-> TRUE, assume_yes |-> TRUE, resp |-> ""],
    [dry_run |-> FALSE, assume_yes |-> TRUE, resp |-> ""],
    [dry_run |-> FALSE, assume_yes |-> FALSE, resp |-> "y"],
    [dry_run |-> FALSE, assume_yes |-> FALSE, resp |-> "yes"],
    [dry_run |-> FALSE, assume_yes |-> FALSE, resp |-> "n"] }

Init ==
  /\ \E T \in SUBSET TopFileCandidates, F \in SUBSET FiledCandidates :
       /\ Cardinality(T) <= MaxTop
       /\ fs = MakeFs(T \cup F, TopDirs)
  /\ journal = NoJournal
  /\ runs = 0
  /\ pc = "idle"
  /\ args = NoArgs
  /\ log_path = 0
  /\ planned = <<>>
  /\ idx = 0
  /\ moved_count = 0
  /\ record = NoDict
  /\ moves = <<>>
  /\ upos = 0
  /\ fs0 = fs
  /\ removed = {}
  /\ interfered = FALSE
  /\ outcome = <<>>
  /\ external = 0
  /\ undone = <<>>
  /\ hist = <<>>
  /\ call = NoCall

\* ------------------------------------------------------------ history
\* What is kept of a finished invocation.  status is "returned", "raised"
\* (an exception left the function) or "killed" (the process was ended);
\* nplanned is the length of the plan, nmoves the length of the moves list and
\* done the number of its records the undo loop reached.
Entry(a, lp, status, before, after, np, mc, nm, dn, intf) ==
  [op |-> a.op, dry_run |-> a.dry_run, proceed |-> a.proceed, log_path |-> lp,
   status |-> status, before |-> before, after |-> after, nplanned |-> np,
   moved_count |-> mc, nmoves |-> nm, done |-> dn, interfered |-> intf]

\* ---------------------------------------------------------------- planner
\* The body of the planning loop for an entry that is not skipped.
PlanEntry(f, p) ==
  LET cat == category_for_file(p)
  IN [src |-> p,
      dst |-> safe_unique_destination(f, Join(Join(downloads_dir, Nm(cat, <<>>, "")), p.name)),
      cat |-> cat]

\* Variant: the loop skips the program's own folders where it should skip
\* every entry that is no regular file.
SortableSkipsOwnFolders(f, entries) ==
  {p \in entries : /\ p \notin category_dirs
                   /\ ~is_inside(p, logs_dir)
                   /\ Parent(p) \notin category_dirs}

\* The entries the planning loop does not skip.
Sortable(f, entries) ==
  {p \in entries : /\ is_file(f, p)
                   /\ ~is_inside(p, logs_dir)
                   /\ Parent(p) \notin category_dirs}

\* input(...).strip().lower() in {"y", "yes"}
Accepts(resp) == resp \in {"y", "yes"}

\* Variant: the dry run check left out.
ArgsIgnoringDryRun(op, fl) ==
  [op |-> op, dry_run |-> fl.dry_run, proceed |-> fl.assume_yes \/ Accepts(fl.resp)]

\* What the flags decide: proceed says that the invocation goes past the dry
\* run check and the confirmation.
Args(op, fl) ==
  [op |-> op, dry_run |-> fl.dry_run,
   proceed |-> ~fl.dry_run /\ (fl.assume_yes \/ Accepts(fl.resp))]

\* run_sort up to the point where the moves begin: the folders are made,
\* the plan is built, and the function returns early on an empty plan, on a
\* dry run and on a declined confirmation.
SortStart ==
  /\ pc = "idle"
  /\ runs < MaxRuns
  /\ \E fl \in Flags :
       LET f1      == ensure_dirs(ensure_dir(fs, logs_dir), category_dirs)
           lp      == now_stamp(runs + 1)
           a       == Args("sort", fl)
       IN \E order \in Perms(Sortable(f1, iterdir(f1, downloads_dir))) :
            LET plan == [i \in 1..Len(order) |-> PlanEntry(f1, order[i])]
                go   == plan # <<>> /\ a.proceed
            IN /\ fs' = f1
               /\ fs0' = fs
               /\ args' = a
               /\ log_path' = lp
               /\ planned' = plan
               /\ pc' = IF go THEN "exec" ELSE "idle"
               /\ hist' = IF go THEN hist
                          ELSE Append(hist, Entry(a, lp, "returned", fs, f1, Len(plan),
                                                  0, 0, 0, FALSE))
  /\ runs' = runs + 1
  /\ idx' = 1
  /\ moved_count' = 0
  /\ record' = NoDict
  /\ moves' = <<>>
  /\ upos' = 0
  /\ removed' = {}
  /\ interfered' = FALSE
  /\ outcome' = <<>>
  /\ undone' = <<>>
  /\ UNCHANGED << journal, external, call >>

\* Something outside the program removes a planned source after planning and
\* before the first move.
ExternalRemove ==
  /\ pc = "exec"
  /\ idx = 1
  /\ external < MaxExternal
  /\ external' = external + 1
  /\ \E i \in 1..Len(planned) :
       /\ exists(fs, planned[i].src)
       /\ fs' = [p \in DOMAIN fs \ {planned[i].src} |-> fs[p]]
       /\ removed' = removed \cup {planned[i].src}
  /\ interfered' = TRUE
  /\ UNCHANGED << call, journal, runs, pc, args, log_path, planned, idx, moved_count, record,
                  moves, upos, fs0, outcome, undone, hist >>

\* --------------------------------------------------------------- executor
\* The try block up to shutil.move: src.stat() raises when the source is
\* gone; otherwise the record is built and the file is moved.
ExecAttempt ==
  /\ pc = "exec"
  /\ idx <= Len(planned)
  /\ LET a == planned[idx]
     IN IF ~exists(fs, a.src)
        THEN /\ record' = ErrorRecord(runs, a, "FileNotFoundError")
             /\ outcome' = Append(outcome, "failed")
             /\ fs' = fs
        ELSE /\ record' = MoveRecord(runs, a, stat(fs, a.src))
             /\ outcome' = Append(outcome, "moved")
             /\ fs' = shutil_move(fs, a.src, a.dst)
  /\ pc' = "exec_log"
  /\ UNCHANGED << call, external, journal, runs, args, log_path, planned, idx, moved_count, moves, upos,
                  fs0, removed, interfered, undone, hist >>

\* Variant: the except clause outside the loop, so an error ends the loop.
AbortOnError(i, n, rec) == IF rec.action = "error" THEN n + 1 ELSE i + 1

\* The position of the executor loop after the attempt at position i of n:
\* the except clause is inside the loop, so the loop goes on after an error.
next_position(i, n, rec) == i + 1

\* write_log_line of the pending record (the move record, or the error
\* record in the except clause), then the next iteration or the return.
ExecLog ==
  /\ pc = "exec_log"
  /\ journal' = write_log_line(journal, log_path, record)
  /\ moved_count' = IF record.action = "move" THEN moved_count + 1 ELSE moved_count
  /\ idx' = next_position(idx, Len(planned), record)
  /\ record' = NoDict
  /\ IF idx' > Len(planned)
     THEN /\ pc' = "idle"
          /\ hist' = Append(hist, Entry(args, log_path, "returned", fs0, fs, Len(planned),
                                        moved_count', 0, 0, interfered))
     ELSE /\ pc' = "exec"
          /\ hist' = hist
  /\ UNCHANGED << call, external, fs, runs, args, log_path, planned, moves, upos, fs0, removed, interfered,
                  outcome, undone >>

\* The process is ended while the executor runs.
Kill ==
  /\ pc \in {"exec", "exec_log"}
  /\ external < MaxExternal
  /\ external' = external + 1
  /\ pc' = "idle"
  /\ hist' = Append(hist, Entry(args, log_path, "killed", fs0, fs, Len(planned),
                                moved_count, 0, 0, interfered))
  /\ UNCHANGED << call, fs, journal, runs, args, log_path, planned, idx, moved_count, record,
                  moves, upos, fs0, removed, interfered, outcome, undone >>

\* ------------------------------------------------------------ undo engine
\* Variant: the record's dst taken for the original path.
UndoTargetSwapped(f, rec) == safe_unique_destination(f, rec.dst)

\* Variant: the original path used without resolving it.
UndoTargetUnchecked(f, rec) == rec.src

\* Where a record's file is moved back to: dst = Path(rec["src"]), resolved.
UndoTarget(f, rec) == safe_unique_destination(f, rec.src)

\* run_undo up to the point where the moves begin: the journal is read, the
\* move records are kept and reversed, and the function returns early when the
\* journal is missing, on a dry run and on a declined confirmation.  The
\* path given is the one an earlier invocation computed, or that of a journal
\* that was there from the start (stamp 0).
UndoStart ==
  /\ pc = "idle"
  /\ runs < MaxRuns
  /\ \E lp \in DOMAIN journal \cup 1..runs, fl \in Flags :
       LET a     == Args("undo", fl)
           found == lp \in DOMAIN journal
           ms    == IF found THEN reverse(read_moves(journal[lp], 1)) ELSE <<>>
           go    == found /\ a.proceed
       IN /\ args' = a
          /\ log_path' = lp
          /\ moves' = ms
          /\ pc' = IF go THEN "undo" ELSE "idle"
          /\ hist' = IF go THEN hist
                     ELSE Append(hist, Entry(a, lp, "returned", fs, fs, 0, 0, Len(ms), 0, FALSE))
  /\ runs' = runs + 1
  /\ upos' = 1
  /\ fs0' = fs
  /\ planned' = <<>>
  /\ idx' = 0
  /\ moved_count' = 0
  /\ record' = NoDict
  /\ removed' = {}
  /\ interfered' = FALSE
  /\ outcome' = <<>>
  /\ undone' = <<>>
  /\ UNCHANGED << fs, journal, external, call >>

\* The head of the undo loop's body: rec["dst"] and rec["src"] raise KeyError
\* when the key is missing, and nothing in run_undo catches it; then the
\* existence check on the record's destination.
UndoNext ==
  /\ pc = "undo"
  /\ upos <= Len(moves)
  /\ LET rec == moves[upos].rec
     IN IF "dst" \notin rec.has \/ "src" \notin rec.has
        THEN /\ pc' = "idle"
             /\ upos' = upos
             /\ hist' = Append(hist, Entry(args, log_path, "raised", fs0, fs, 0, 0,
                                           Len(moves), upos, interfered))
        ELSE /\ pc' = IF exists(fs, rec.dst) THEN "undo_move" ELSE "undo"
             /\ upos' = IF exists(fs, rec.dst) THEN upos ELSE upos + 1
             /\ hist' = hist
  /\ UNCHANGED << call, external, fs, journal, runs, args, log_path, planned, idx, moved_count, record,
                  moves, fs0, removed, interfered, outcome, undone >>

\* Something outside the program removes the file between the existence
\* check and the move.
ExternalVanish ==
  /\ pc = "undo_move"
  /\ external < MaxExternal
  /\ external' = external + 1
  /\ exists(fs, moves[upos].rec.dst)
  /\ fs' = [p \in DOMAIN fs \ {moves[upos].rec.dst} |-> fs[p]]
  /\ interfered' = TRUE
  /\ UNCHANGED << call, journal, runs, pc, args, log_path, planned, idx, moved_count, record,
                  moves, upos, fs0, removed, outcome, undone, hist >>

\* ensure_dir(dst.parent), then shutil.move to the resolved original path;
\* shutil.move raises when the file is gone, and nothing catches it.
UndoMove ==
  /\ pc = "undo_move"
  /\ LET rec == moves[upos].rec
         f1  == ensure_dir(fs, Parent(rec.src))
     IN IF ~exists(f1, rec.dst)
        THEN /\ fs' = f1
             /\ pc' = "idle"
             /\ upos' = upos
             /\ undone' = undone
             /\ hist' = Append(hist, Entry(args, log_path, "raised", fs0, f1, 0, 0,
                                           Len(moves), upos, interfered))
        ELSE /\ fs' = shutil_move(f1, rec.dst, UndoTarget(f1, rec))
             /\ pc' = "undo"
             /\ upos' = upos + 1
             /\ undone' = Append(undone, moves[upos].line)
             /\ hist' = hist
  /\ UNCHANGED << call, external, journal, runs, args, log_path, planned, idx, moved_count, record,
                  moves, fs0, removed, interfered, outcome >>

\* The undo loop has run through the moves list: run_undo returns.
UndoReturn ==
  /\ pc = "undo"
  /\ upos > Len(moves)
  /\ pc' = "idle"
  /\ hist' = Append(hist, Entry(args, log_path, "returned", fs0, fs, 0, 0,
                                Len(moves), upos - 1, interfered))
  /\ UNCHANGED << call, external, fs, journal, runs, args, log_path, planned, idx, moved_count, record,
                  moves, upos, fs0, removed, interfered, outcome, undone >>

\* --------------------------------------------------------- specifications
Next ==
  \/ SortStart
  \/ ExternalRemove
  \/ ExecAttempt
  \/ ExecLog
  \/ Kill
  \/ UndoStart
  \/ UndoNext
  \/ ExternalVanish
  \/ UndoMove
  \/ UndoReturn

Spec == Init /\ [][Next]_vars

\* ------------------------------------------- undo of an arbitrary journal
\* The second specification starts from a journal that is already in the log
\* folder (stamp 0) and whose lines are any mix of sound and unsound ones, and
\* runs only run_undo.
NotesAction ==
  [src |-> P("", Nm("notes", <<>>, ".txt")), dst |-> P("Documents", Nm("notes", <<>>, ".txt")),
   cat |-> "Documents"]

PhotoAction ==
  [src |-> P("", Nm("photo", <<>>, ".png")), dst |-> P("Images", Nm("photo", <<>>, ".png")),
   cat |-> "Images"]

StatOf(a) == [st_size |-> Size(a.src), st_mtime |-> Mtime(a.src)]

\* A JSON object that says "move" and lacks the given key.
Lacking(d, key) == [d EXCEPT !.has = @ \ {key}]

JournalLines ==
  { json_dumps(MoveRecord(0, NotesAction, StatOf(NotesAction))),
    json_dumps(MoveRecord(0, PhotoAction, StatOf(PhotoAction))),
    json_dumps(ErrorRecord(0, PhotoAction, "FileNotFoundError")),
    json_dumps(Lacking(MoveRecord(0, NotesAction, StatOf(NotesAction)), "dst")),
    json_dumps(Lacking(MoveRecord(0, PhotoAction, StatOf(PhotoAction)), "src")),
    NonObjectLine,
    InvalidLine }

UndoFileCandidates == { NotesAction.src, NotesAction.dst, PhotoAction.dst }

InitUndo ==
  /\ \E F \in SUBSET UndoFileCandidates : fs = MakeFs(F, TopDirs)
  /\ \E n \in 0..MaxLines : \E lines \in [1..n -> JournalLines] : journal = (0 :> lines)
  /\ runs = 0
  /\ pc = "idle"
  /\ args = NoArgs
  /\ log_path = 0
  /\ planned = <<>>
  /\ idx = 0
  /\ moved_count = 0
  /\ record = NoDict
  /\ moves = <<>>
  /\ upos = 0
  /\ fs0 = fs
  /\ removed = {}
  /\ interfered = FALSE
  /\ outcome = <<>>
  /\ external = 0
  /\ undone = <<>>
  /\ hist = <<>>
  /\ call = NoCall

NextUndo ==
  \/ UndoStart
  \/ UndoNext
  \/ ExternalVanish
  \/ UndoMove
  \/ UndoReturn

SpecUndo == InitUndo /\ [][NextUndo]_vars

\* ------------------------------------------- the functions on their own
\* The third specification calls the destination resolver and the classifier
\* on their own, on any path and any filesystem of a small family.
ResolveBase == P("", Nm("notes", <<>>, ".txt"))

\* The i-th candidate of a path: "<stem> (i)<suffix>" in the same folder.
Numbered(p, i) == P(p.dir, Nm(p.name.base, Append(p.name.sfx, i), p.name.ext))

ResolveFileCandidates ==
  {ResolveBase} \cup {Numbered(ResolveBase, i) : i \in 1..MaxChain}

\* The paths the resolver is asked about: files that may be there, a file
\* that never is, and a folder.
ResolveQueries ==
  ResolveFileCandidates \cup {P("", Nm("photo", <<>>, ".png"))} \cup TopDirs

\* Every extension of EXT_MAP, the empty one, mixed-case spellings of known
\* ones, and unknown ones in lower and mixed case.
Extensions ==
  UNION {EXT_MAP[i].exts : i \in 1..Len(EXT_MAP)} \cup {"", ".PNG", ".Txt", ".xyz", ".XyZ"}

InitPure ==
  /\ \E F \in SUBSET ResolveFileCandidates : fs = MakeFs(F, TopDirs)
  /\ journal = NoJournal
  /\ runs = 0
  /\ pc = "idle"
  /\ args = NoArgs
  /\ log_path = 0
  /\ planned = <<>>
  /\ idx = 0
  /\ moved_count = 0
  /\ record = NoDict
  /\ moves = <<>>
  /\ upos = 0
  /\ fs0 = fs
  /\ removed = {}
  /\ interfered = FALSE
  /\ outcome = <<>>
  /\ external = 0
  /\ undone = <<>>
  /\ hist = <<>>
  /\ call = NoCall

\* safe_unique_destination(dest) on the filesystem as it is.
Resolve ==
  /\ \E dest \in ResolveQueries :
       call' = [fn |-> "resolve", arg |-> dest,
                path |-> safe_unique_destination(fs, dest), cat |-> ""]
  /\ UNCHANGED << fs, journal, runs, pc, args, log_path, planned, idx, moved_count, record,
                  moves, upos, fs0, removed, interfered, outcome, external, undone, hist >>

\* category_for_file(path) for a path with the given extension.
Classify ==
  /\ \E ext \in Extensions :
       LET path == P("", Nm("file", <<>>, ext))
       IN call' = [fn |-> "classify", arg |-> path, path |-> NoPath,
                   cat |-> category_for_file(path)]
  /\ UNCHANGED << fs, journal, runs, pc, args, log_path, planned, idx, moved_count, record,
                  moves, upos, fs0, removed, interfered, outcome, external, undone, hist >>

NextPure ==
  \/ Resolve
  \/ Classify

SpecPure == InitPure /\ [][NextPure]_vars

\* ------------------------------------------------------------- properties
Last == hist[Len(hist)]

\* The lines of the running (or last) invocation's journal; none when the
\* file does not exist.
Lines == IF log_path \in DOMAIN journal THEN journal[log_path] ELSE <<>>

\* The filesystem the plan was built against: the one the invocation found,
\* with the log folder and the category folders made.
PlanTimeFs == ensure_dirs(ensure_dir(fs0, logs_dir), category_dirs)

TopFiles(f) == {p \in DOMAIN f : p.dir = "" /\ f[p].kind = "file"}

TopFileNames(f) == {p.name : p \in TopFiles(f)}

\* A sort invocation has run its executor to the end and returned.
SortCompleted ==
  /\ pc = "idle"
  /\ args.op = "sort"
  /\ args.proceed
  /\ planned # <<>>
  /\ Last.status = "returned"

\* C1: the plan built by run_sort gives its actions pairwise distinct
\* destinations, and no destination exists on the filesystem at plan time.
PlanDestinationsUnique ==
  args.op = "sort" =>
    /\ \A i, j \in 1..Len(planned) : i # j => planned[i].dst # planned[j].dst
    /\ \A i \in 1..Len(planned) : ~exists(PlanTimeFs, planned[i].dst)

\* No top-level file of f has a file of its name in its category folder.
NoCategoryCollision(f) ==
  \A p \in TopFiles(f) : ~exists(f, Join(Folder(category_for_file(p)), p.name))

\* hist[k] is a confirmed sort that returned, and hist[k+1] a confirmed undo
\* of the journal it returned, with nothing external in either.
SortThenUndo(k) ==
  /\ hist[k].op = "sort" /\ hist[k].status = "returned" /\ hist[k].proceed
  /\ ~hist[k].interfered
  /\ hist[k + 1].op = "undo" /\ hist[k + 1].status = "returned" /\ hist[k + 1].proceed
  /\ ~hist[k + 1].interfered
  /\ hist[k + 1].log_path = hist[k].log_path

\* C2: when no top-level file has a same-named file in its category folder,
\* a confirmed sort followed by a confirmed undo of its journal leaves the set
\* of top-level file names as it was before the sort.
RoundTripRestoresTopLevel ==
  \A k \in 1..(Len(hist) - 1) :
    (SortThenUndo(k) /\ NoCategoryCollision(hist[k].before))
      => TopFileNames(hist[k + 1].after) = TopFileNames(hist[k].before)

RoundTripWitness ==
  \E k \in 1..(Len(hist) - 1) :
    /\ SortThenUndo(k)
    /\ NoCategoryCollision(hist[k].before)
    /\ hist[k].moved_count = 2
    /\ hist[k + 1].done = 2
    /\ TopFiles(hist[k].after) = {}

ErrorLines == {i \in 1..Len(Lines) : Lines[i].obj.action = "error"}

\* C3: with any of the planned sources removed before execution, the
\* executor attempts every action in order and returns, the success count is
\* the number of actions whose source was still there, and the journal holds
\* exactly one error record for each action whose source was missing.
ExecutorPartialFailure ==
  /\ \A k \in 1..Len(hist) : hist[k].op = "sort" => hist[k].status # "raised"
  /\ SortCompleted =>
       /\ Len(outcome) = Len(planned)
       /\ Len(Lines) = Len(planned)
       /\ \A i \in 1..Len(planned) : Lines[i].obj.src = planned[i].src
       /\ Last.moved_count = Cardinality({i \in 1..Len(planned) : planned[i].src \notin removed})
       /\ ErrorLines = {i \in 1..Len(planned) : planned[i].src \in removed}

ExecutorPartialFailureWitness ==
  /\ SortCompleted
  /\ removed # {}
  /\ Last.moved_count >= 1

\* The step of run_undo that moves a record's file back.
UndoMoveStep == pc = "undo_move" /\ pc' = "undo"

\* The name is name0 with one more " (i)" before the extension.
SuffixedVariant(p, p0) ==
  /\ p.dir = p0.dir
  /\ p.name.base = p0.name.base
  /\ p.name.ext = p0.name.ext
  /\ \E i \in 1..(Cardinality(DOMAIN fs) + 1) : p.name.sfx = Append(p0.name.sfx, i)

\* C4: every move back of run_undo takes the file at the record's destination
\* to a path that did not exist just before (the original source path when it
\* is free, a suffixed variant of it otherwise), and every other file stays
\* where it was, as it was.
UndoNeverClobbers ==
  [][UndoMoveStep =>
       LET rec == moves[upos].rec
       IN /\ \A p \in DOMAIN fs \ {rec.dst} : p \in DOMAIN fs' /\ fs'[p] = fs[p]
          /\ rec.dst \notin DOMAIN fs'
          /\ \E t \in DOMAIN fs' \ DOMAIN fs :
               /\ fs'[t] = fs[rec.dst]
               /\ IF rec.src \notin DOMAIN fs THEN t = rec.src
                  ELSE SuffixedVariant(t, rec.src)]_vars

\* A file was moved back while another file occupied its original path.
UndoNeverClobbersWitness ==
  /\ args.op = "undo"
  /\ undone # <<>>
  /\ exists(fs, NotesAction.src) /\ fs[NotesAction.src].id = NotesAction.src
  /\ exists(fs, P("", Nm("notes", <<1>>, ".txt")))
  /\ fs[P("", Nm("notes", <<1>>, ".txt"))].id = NotesAction.dst

\* The record the uninterrupted executor writes for action i.
ExpectedRecord(i) ==
  IF planned[i].src \in removed
  THEN ErrorRecord(runs, planned[i], "FileNotFoundError")
  ELSE MoveRecord(runs, planned[i], stat(fs0, planned[i].src))

\* C5: at every point of an executor run (and so wherever the process is
\* ended), the journal holds whole records only, they are the first records
\* the uninterrupted run writes, and every move record in it is that of a move
\* already performed.
CrashConsistentJournal ==
  (args.op = "sort" /\ args.proceed /\ planned # <<>>) =>
    /\ Len(Lines) <= Len(planned)
    /\ \A i \in 1..Len(Lines) :
         /\ Lines[i] = json_dumps(ExpectedRecord(i))
         /\ Lines[i].obj.action = "move" => (i <= Len(outcome) /\ outcome[i] = "moved")

\* The process was ended after the second move and before its record.
CrashConsistentJournalWitness ==
  /\ pc = "idle"
  /\ args.op = "sort"
  /\ Last.status = "killed"
  /\ Len(planned) = 2
  /\ outcome = <<"moved", "moved">>
  /\ Len(Lines) = 1

\* C6: after the executor has processed the plan, the journal holds one
\* record per planned action, in plan order: a move record (category, the
\* destination computed at plan time, the source's size and its modification
\* time in whole seconds as before the move) where the move succeeded, an error
\* record where it failed.
JournalOneRecordPerAction ==
  SortCompleted =>
    /\ log_path \in DOMAIN journal
    /\ Len(Lines) = Len(planned)
    /\ \A i \in 1..Len(planned) :
         LET a == planned[i]
             d == Lines[i].obj
         IN /\ Lines[i].parse = "object"
            /\ d.src = a.src /\ d.dst = a.dst
            /\ outcome[i] = "moved" =>
                 /\ d.action = "move"
                 /\ d.has = {"timestamp", "action", "category", "src", "dst",
                             "size_bytes", "mtime_epoch"}
                 /\ d.category = a.cat
                 /\ d.size_bytes = fs0[a.src].size
                 /\ d.mtime_epoch = fs0[a.src].mtime \div 2
            /\ outcome[i] = "failed" =>
                 /\ d.action = "error"
                 /\ d.has = {"timestamp", "action", "src", "dst", "error"}

\* Both moves succeeded, one of them to a suffixed destination.
JournalOneRecordPerActionWitness ==
  /\ SortCompleted
  /\ Last.moved_count = 2
  /\ \E i \in 1..2 : planned[i].src.name.sfx = <<>> /\ planned[i].dst.name.sfx = <<1>>

WellFormedMove(line) ==
  /\ line.parse = "object"
  /\ {"action", "src", "dst"} \subseteq line.obj.has
  /\ line.obj.action = "move"

Undone == {undone[i] : i \in 1..Len(undone)}

\* C8: whatever unsound lines the journal holds, a confirmed run_undo that
\* nothing external disturbs returns without raising, having moved back every
\* well-formed move record whose destination file was there.
UndoSkipsMalformedLines ==
  (pc = "idle" /\ args.op = "undo" /\ args.proceed /\ ~interfered
     /\ log_path \in DOMAIN journal) =>
    /\ Last.status = "returned"
    /\ \A i \in 1..Len(Lines) :
         WellFormedMove(Lines[i]) => (i \in Undone \/ ~exists(fs, Lines[i].obj.dst))

\* C9: a confirmed run_undo of an existing journal reaches every move
\* record of the journal, whether or not the move back of one of them failed.
UndoBatchSurvivesFailure ==
  \A k \in 1..Len(hist) :
    (hist[k].op = "undo" /\ hist[k].proceed /\ hist[k].log_path \in DOMAIN journal)
      => hist[k].done = hist[k].nmoves

\* C10: the moves back are performed in the reverse of the journal's order
\* (of two records moved back, the later in the journal is moved back first),
\* and every line acted on is a move record, never an error record.
UndoReverseOrder ==
  args.op = "undo" =>
    /\ \A a, b \in 1..Len(undone) : a < b => undone[a] > undone[b]
    /\ \A a \in 1..Len(undone) :
         /\ undone[a] \in 1..Len(Lines)
         /\ Lines[undone[a]].parse = "object"
         /\ Lines[undone[a]].obj.action = "move"

\* Two records of the journal have been moved back.
UndoReverseOrderWitness ==
  /\ args.op = "undo"
  /\ Len(undone) = 2

\* C11 -- Repeated undo is a no-op.  The journals are those of the shape
\* run_sort writes (sources at the top level, destinations in category
\* folders, error records in between).  When a run_undo that went through
\* its whole moves list is followed directly by a run_undo of the same
\* journal, the second one never reaches the move, undoes no record, returns,
\* and leaves the directory exactly as the first one left it.
UndoCompleted(e) ==
  /\ e.op = "undo"
  /\ e.proceed
  /\ e.status = "returned"
  /\ e.log_path \in DOMAIN journal

RepeatedUndoIsNoOp ==
  /\ (/\ hist # <<>>
      /\ UndoCompleted(Last)
      /\ pc # "idle"
      /\ args.op = "undo"
      /\ log_path = Last.log_path)
     => (pc = "undo" /\ undone = <<>> /\ fs = fs0 /\ fs = Last.after)
  /\ \A k \in 1..(Len(hist) - 1) :
       (/\ UndoCompleted(hist[k])
        /\ hist[k + 1].op = "undo"
        /\ hist[k + 1].log_path = hist[k].log_path)
       => /\ hist[k + 1].status = "returned"
          /\ hist[k + 1].after = hist[k + 1].before
          /\ hist[k + 1].after = hist[k].after

\* The first undo moved a file back, and the second one went through the
\* same records again.
RepeatedUndoIsNoOpWitness ==
  /\ Len(hist) = 2
  /\ UndoCompleted(hist[1])
  /\ hist[1].after # hist[1].before
  /\ hist[2].op = "undo"
  /\ hist[2].proceed
  /\ hist[2].log_path = hist[1].log_path
  /\ hist[2].nmoves >= 1
  /\ hist[2].done = hist[2].nmoves

\* C12 -- For every path and every filesystem, safe_unique_destination
\* returns the path itself when the path does not exist; when the path
\* exists, it returns a path that differs from it and that does not exist.
ResolverReturnsFreePath ==
  call.fn = "resolve" =>
    /\ ~exists(fs, call.arg) => call.path = call.arg
    /\ exists(fs, call.arg) => (call.path # call.arg /\ ~exists(fs, call.path))

\* The path asked about exists, and so does its first numbered variant.
ResolverReturnsFreePathWitness ==
  /\ call.fn = "resolve"
  /\ exists(fs, call.arg)
  /\ exists(fs, Numbered(call.arg, 1))
  /\ call.path # call.arg

\* C13 -- For every state of the target directory, no action of the plan
\* built by run_sort has as its source a file inside a category subfolder, a
\* file inside the log subfolder, or an entry that is not a regular file.
\* (Journal files are kept in the variable journal and are no paths of fs:
\* they are in the log subfolder, whose content iterdir() does not list.)
PlanSourcesAreLooseFiles ==
  args.op = "sort" =>
    \A i \in 1..Len(planned) :
      LET s == planned[i].src
      IN /\ s \in DOMAIN PlanTimeFs
         /\ PlanTimeFs[s].kind = "file"
         /\ Parent(s) \notin category_dirs
         /\ Parent(s) # logs_dir
         /\ s # logs_dir

\* A plan is built while a category folder holds a file, the log folder
\* holds a journal and the downloads directory holds subfolders.
PlanSourcesAreLooseFilesWitness ==
  /\ args.op = "sort"
  /\ pc = "exec"
  /\ idx = 1
  /\ planned # <<>>
  /\ DOMAIN journal # {}
  /\ \E p \in DOMAIN PlanTimeFs : PlanTimeFs[p].kind = "file" /\ Parent(p) \in category_dirs
  /\ \E p \in DOMAIN fs0 : fs0[p].kind = "dir" /\ Parent(p) = downloads_dir

\* The regular files of a filesystem, each with where it is.
FilesOf(f) == {<< p, f[p] >> : p \in {q \in DOMAIN f : f[q].kind = "file"}}

\* C14 -- Files are moved only by a confirmed, non-dry-run invocation: when
\* the dry-run flag is set, or when confirmation is required and declined,
\* neither run_sort nor run_undo moves any file (the invocation returns
\* before its loop and every file is where it was), and run_sort appends no
\* journal record (its journal file does not even come to exist).
OnlyConfirmedRunsMove ==
  /\ (pc # "idle") => (args.proceed /\ ~args.dry_run)
  /\ \A k \in 1..Len(hist) :
       (hist[k].dry_run \/ ~hist[k].proceed)
       => /\ hist[k].status = "returned"
          /\ FilesOf(hist[k].after) = FilesOf(hist[k].before)
          /\ hist[k].moved_count = 0
          /\ hist[k].done = 0
          /\ hist[k].op = "sort" => hist[k].log_path \notin DOMAIN journal
          /\ hist[k].op = "undo" => hist[k].after = hist[k].before

\* A sort moved files, and the undo of its journal, which holds move records
\* whose files are in place, was declined at the prompt.
OnlyConfirmedRunsMoveWitness ==
  /\ Len(hist) = 2
  /\ hist[1].op = "sort"
  /\ hist[1].moved_count >= 1
  /\ hist[2].op = "undo"
  /\ hist[2].log_path = hist[1].log_path
  /\ ~hist[2].dry_run
  /\ ~hist[2].proceed
  /\ hist[2].nmoves >= 1

\* A line that is a record of a move: a JSON object whose action is "move".
IsMoveRecord(line) ==
  /\ line.parse = "object"
  /\ "action" \in line.obj.has
  /\ line.obj.action = "move"

HoldsNoMove(lp) ==
  /\ lp \in DOMAIN journal
  /\ \A i \in 1..Len(journal[lp]) : ~IsMoveRecord(journal[lp][i])

\* C15 -- run_undo on a journal that holds no move record (only error
\* records, or nothing) performs zero filesystem moves and returns without
\* raising: its moves list is empty, no undo step moves anything, and the
\* directory is as it was.
UndoOfNoMovesIsInert ==
  /\ (pc # "idle" /\ args.op = "undo" /\ HoldsNoMove(log_path))
     => (pc = "undo" /\ moves = <<>> /\ undone = <<>> /\ fs = fs0)
  /\ \A k \in 1..Len(hist) :
       (hist[k].op = "undo" /\ HoldsNoMove(hist[k].log_path))
       => /\ hist[k].status = "returned"
          /\ hist[k].nmoves = 0
          /\ hist[k].after = hist[k].before

\* A confirmed undo of a journal that holds error records only, while the
\* destination an error record names has a file.
UndoOfNoMovesIsInertWitness ==
  /\ hist # <<>>
  /\ Last.op = "undo"
  /\ Last.proceed
  /\ HoldsNoMove(Last.log_path)
  /\ Len(journal[Last.log_path]) >= 1
  /\ \A i \in 1..Len(journal[Last.log_path]) :
       /\ journal[Last.log_path][i].parse = "object"
       /\ journal[Last.log_path][i].obj.action = "error"
       /\ exists(Last.before, journal[Last.log_path][i].obj.dst)

\* C16 as stated -- For every extension that belongs to a category's
\* extension set, category_for_file returns that category; for every
\* extension that no set contains (including the empty extension and
\* mixed-case spellings), it returns Other.
ClassifierExactMatch ==
  call.fn = "classify" =>
    LET e == call.arg.name.ext
    IN /\ \A i \in 1..Len(EXT_MAP) : e \in EXT_MAP[i].exts => call.cat = EXT_MAP[i].cat
       /\ (\A i \in 1..Len(EXT_MAP) : e \notin EXT_MAP[i].exts) => call.cat = "Other"

\* C16 -- For every extension whose lower-cased spelling belongs to a
\* category's extension set, category_for_file returns that category; for
\* every extension whose lower-cased spelling no set contains (the empty
\* extension included), it returns Other.
ClassifierFoldsCase ==
  call.fn = "classify" =>
    LET e == lower(call.arg.name.ext)
    IN /\ \A i \in 1..Len(EXT_MAP) : e \in EXT_MAP[i].exts => call.cat = EXT_MAP[i].cat
       /\ (\A i \in 1..Len(EXT_MAP) : e \notin EXT_MAP[i].exts) => call.cat = "Other"

\* A mixed-case spelling of a known extension is classified.
ClassifierFoldsCaseWitness ==
  /\ call.fn = "classify"
  /\ call.arg.name.ext = ".PNG"
  /\ call.cat = "Images"

\* C17 -- When the desired path exists, safe_unique_destination returns the
\* candidate "<stem> (i)<extension>" in the same directory for the smallest
\* integer i >= 1 whose candidate does not exist; every candidate with a
\* smaller i exists at the time of the call.
ResolverTakesFirstFreeNumber ==
  (call.fn = "resolve" /\ exists(fs, call.arg)) =>
    \E i \in 1..(Cardinality(DOMAIN fs) + 1) :
      /\ call.path = Numbered(call.arg, i)
      /\ Parent(call.path) = Parent(call.arg)
      /\ ~exists(fs, Numbered(call.arg, i))
      /\ \A j \in 1..(i - 1) : exists(fs, Numbered(call.arg, j))

\* The path and all its numbered variants that the folder may start with
\* exist, and the resolver returns the next number.
ResolverTakesFirstFreeNumberWitness ==
  /\ call.fn = "resolve"
  /\ exists(fs, call.arg)
  /\ \A j \in 1..MaxChain : exists(fs, Numbered(call.arg, j))
  /\ call.path = Numbered(call.arg, MaxChain + 1)

\* The identities of the regular files of a filesystem.
FileIds(f) == {f[p].id : p \in {q \in DOMAIN f : f[q].kind = "file"}}

\* C18 -- Sorting never destroys a file: a confirmed non-dry-run run_sort
\* with no external interference never overwrites or deletes a file, so the
\* regular files under the target directory after the run are those before
\* it, and as many.
SortNeverDestroysFiles ==
  \A k \in 1..Len(hist) :
    (/\ hist[k].op = "sort"
     /\ hist[k].proceed
     /\ hist[k].status = "returned"
     /\ ~hist[k].interfered)
    => /\ Cardinality(FilesOf(hist[k].after)) = Cardinality(FilesOf(hist[k].before))
       /\ FileIds(hist[k].after) = FileIds(hist[k].before)

\* The journal of the running (or last) sort holds a move record for the
\* i-th planned action.
Journaled(i) ==
  /\ log_path \in DOMAIN journal
  /\ \E n \in 1..Len(journal[log_path]) :
       /\ IsMoveRecord(journal[log_path][n])
       /\ journal[log_path][n].obj.src = planned[i].src
       /\ journal[log_path][n].obj.dst = planned[i].dst

\* C19 -- Every performed move is journaled: at every point of an executor
\* run at which the process could be terminated, each file the executor has
\* already moved out of its source location has a move record in the
\* journal.
EveryMoveJournaled ==
  args.op = "sort" =>
    \A i \in 1..Len(outcome) : outcome[i] = "moved" => Journaled(i)

\* A confirmed sort that returned with every planned move performed.
SortFullySucceeded(e) ==
  /\ e.op = "sort"
  /\ e.proceed
  /\ e.status = "returned"
  /\ ~e.interfered
  /\ e.moved_count = e.nplanned

\* C20 -- Sorting is idempotent: directly after a run_sort in which every
\* planned move succeeded, a second run_sort on the same directory builds an
\* empty plan, moves no file (it never enters the executor and leaves the
\* directory as it found it) and writes no journal record.
SortIsIdempotent ==
  /\ (hist # <<>> /\ SortFullySucceeded(Last) /\ args.op = "sort" /\ log_path # Last.log_path)
     => (pc = "idle" /\ planned = <<>>)
  /\ \A k \in 1..(Len(hist) - 1) :
       (SortFullySucceeded(hist[k]) /\ hist[k + 1].op = "sort")
       => /\ hist[k + 1].status = "returned"
          /\ hist[k + 1].nplanned = 0
          /\ hist[k + 1].moved_count = 0
          /\ hist[k + 1].after = hist[k + 1].before
          /\ hist[k + 1].log_path \notin DOMAIN journal

\* The first sort moved every top-level file, and the second one was free to
\* move files too.
SortIsIdempotentWitness ==
  /\ Len(hist) = 2
  /\ SortFullySucceeded(hist[1])
  /\ hist[1].moved_count = MaxTop
  /\ hist[2].op = "sort"
  /\ hist[2].proceed

====
